---- MODULE Spec2Model ----
(***************************************************************************)
(* Birth and death records kept in two MongoDB collections                 *)
(* (src/mongodb_app.py): the validators, the RecordsManager operations and *)
(* the part of the document store they rely on (unique index on            *)
(* registration_no, insert_one, find_one, update_one with $set,            *)
(* delete_one, find/sort/limit).                                           *)
(*                                                                         *)
(* Strings are sequences of one-character tokens, so that upper(), strip() *)
(* and the two regular expressions are computed character by character.    *)
(* "TAB" and "LF" stand for the tab and the newline character.             *)
(***************************************************************************)
EXTENDS Integers, Sequences, FiniteSets, TLC

VARIABLES births, deaths, nextId, pc, doc, res, touched

vars == <<births, deaths, nextId, pc, doc, res, touched>>

(***************************************************************************)
(* Characters                                                              *)
(***************************************************************************)
LowerChars == {"a", "b", "l", "o", "x"}
UpperChars == {"A", "B", "L", "O", "X"}
DigitChars == {"0", "1", "2", "3", "4", "5", "6", "7", "8", "9"}
SpaceChars == {" ", "TAB", "LF"}

\* str.upper(), one character
UpperChar(c) ==
    CASE c = "a" -> "A"
      [] c = "b" -> "B"
      [] c = "l" -> "L"
      [] c = "o" -> "O"
      [] c = "x" -> "X"
      [] OTHER -> c

\* str.upper()
Upper(s) == [i \in 1..Len(s) |-> UpperChar(s[i])]

\* str.strip(): leading and trailing whitespace removed
RECURSIVE LStrip(_)
LStrip(s) == IF s # <<>> /\ Head(s) \in SpaceChars THEN LStrip(Tail(s)) ELSE s

RECURSIVE RStrip(_)
RStrip(s) ==
    IF s # <<>> /\ s[Len(s)] \in SpaceChars
    THEN RStrip(SubSeq(s, 1, Len(s) - 1))
    ELSE s

Strip(s) == RStrip(LStrip(s))

\* n copies of the character c
Rep(c, n) == [i \in 1..n |-> c]

(***************************************************************************)
(* The two patterns.  "$" also matches just before one trailing newline.   *)
(***************************************************************************)
RegnoMin == 3
RegnoMax == 50
NameMin == 2
NameMax == 150

\* [A-Z0-9-] under re.I
RegnoClass == UpperChars \cup LowerChars \cup DigitChars \cup {"-"}

\* [\w\s.'-] under re.U
NameClass ==
    UpperChars \cup LowerChars \cup DigitChars \cup {"_"} \cup SpaceChars
        \cup {".", "'", "-"}

\* ^[class]{lo,hi}$ matched against s
FullMatch(s, class, lo, hi) ==
    LET body(t) == Len(t) >= lo /\ Len(t) <= hi /\ \A i \in 1..Len(t) : t[i] \in class
    IN  \/ body(s)
        \/ s # <<>> /\ s[Len(s)] = "LF" /\ body(SubSeq(s, 1, Len(s) - 1))

REGNO_RE(s) == FullMatch(s, RegnoClass, RegnoMin, RegnoMax)

NAME_RE(s) == FullMatch(s, NameClass, NameMin, NameMax)

(***************************************************************************)
(* Python values.  Every value has the same shape, so that any two can be  *)
(* compared: t is the type, s the characters of a str, n the number of an  *)
(* int or an ObjectId, day/ms/us the calendar day (yyyymmdd), the          *)
(* millisecond of the day and the microsecond of the millisecond of a      *)
(* datetime, father/mother the two entries of a parents dict ("None" when  *)
(* the key is missing or None).                                            *)
(***************************************************************************)
MkVal(t, s, n, day, ms, us, father, mother) ==
    [t |-> t, s |-> s, n |-> n, day |-> day, ms |-> ms, us |-> us,
     father |-> father, mother |-> mother]

NoneV == MkVal("none", <<>>, 0, 0, 0, 0, "None", "None")
StrV(s) == MkVal("str", s, 0, 0, 0, 0, "None", "None")
IntV(n) == MkVal("int", <<>>, n, 0, 0, 0, "None", "None")
OidV(n) == MkVal("oid", <<>>, n, 0, 0, 0, "None", "None")
DateTimeV(day, ms, us) == MkVal("datetime", <<>>, 0, day, ms, us, "None", "None")
DictV(father, mother) == MkVal("dict", <<>>, 0, 0, 0, 0, father, mother)

\* Python truthiness, negated: None, "", 0 and {} are falsy
Falsy(v) ==
    \/ v.t = "none"
    \/ v.t = "str" /\ v.s = <<>>
    \/ v.t = "int" /\ v.n = 0
    \/ v.t = "dict" /\ v.father = "None" /\ v.mother = "None"

\* dict.get(key): None when the key is missing
Get(data, k) == IF k \in DOMAIN data THEN data[k] ELSE NoneV

DigitOf(d) ==
    CASE d = 0 -> "0" [] d = 1 -> "1" [] d = 2 -> "2" [] d = 3 -> "3" [] d = 4 -> "4"
      [] d = 5 -> "5" [] d = 6 -> "6" [] d = 7 -> "7" [] d = 8 -> "8" [] d = 9 -> "9"

DigitVal(c) ==
    CASE c = "0" -> 0 [] c = "1" -> 1 [] c = "2" -> 2 [] c = "3" -> 3 [] c = "4" -> 4
      [] c = "5" -> 5 [] c = "6" -> 6 [] c = "7" -> 7 [] c = "8" -> 8 [] c = "9" -> 9

RECURSIVE IntStr(_)
IntStr(n) == IF n < 10 THEN <<DigitOf(n)>> ELSE IntStr(n \div 10) \o <<DigitOf(n % 10)>>

\* str(reg) for the truthy values a registration_no is drawn from (str, int >= 0)
Str(v) == CASE v.t = "str" -> v.s [] v.t = "int" -> IntStr(v.n)

(***************************************************************************)
(* datetime.fromisoformat, for the date-only form YYYY-MM-DD (ten          *)
(* characters); date strings are drawn with at most ten characters, and a  *)
(* shorter one is none of the forms with a time or an offset.              *)
(***************************************************************************)
IsLeap(y) == (y % 4 = 0 /\ y % 100 # 0) \/ y % 400 = 0

DaysInMonth(y, m) ==
    CASE m \in {4, 6, 9, 11} -> 30
      [] m = 2 -> IF IsLeap(y) THEN 29 ELSE 28
      [] OTHER -> 31

Num(s, i, j) ==
    LET RECURSIVE go(_, _)
        go(k, acc) == IF k > j THEN acc ELSE go(k + 1, acc * 10 + DigitVal(s[k]))
    IN  go(i, 0)

IsoOK(s) ==
    /\ Len(s) = 10
    /\ s[5] = "-" /\ s[8] = "-"
    /\ \A i \in {1, 2, 3, 4, 6, 7, 9, 10} : s[i] \in DigitChars
    /\ Num(s, 1, 4) >= 1
    /\ Num(s, 6, 7) \in 1..12
    /\ Num(s, 9, 10) \in 1..DaysInMonth(Num(s, 1, 4), Num(s, 6, 7))

FromIso(s) == DateTimeV(Num(s, 1, 4) * 10000 + Num(s, 6, 7) * 100 + Num(s, 9, 10), 0, 0)

(***************************************************************************)
(* Validation.  A validator's outcome: status "ok" with the canonical      *)
(* document in out, or the exception raised.  now is datetime.utcnow().    *)
(***************************************************************************)
NoDoc == [registration_no |-> NoneV]

Raise(exc, msg) == [status |-> exc, msg |-> msg, out |-> NoDoc]

Ok(out) == [status |-> "ok", msg |-> "", out |-> out]

RegBad(data) ==
    LET reg == Get(data, "registration_no")
    IN  Falsy(reg) \/ ~REGNO_RE(Str(reg))

\* "not name": decided before the pattern is tried
NameMissing(data) == Falsy(Get(data, "name"))

\* NAME_RE.match(name) with a name that is no str raises TypeError
NameNotStr(data) == Get(data, "name").t # "str"

NameBad(data) == ~NAME_RE(Get(data, "name").s)

DateStrBad(data, k) == Get(data, k).t = "str" /\ ~IsoOK(Get(data, k).s)

Coerced(data, k) == IF Get(data, k).t = "str" THEN FromIso(Get(data, k).s) ELSE Get(data, k)

DateBad(data, k) == Get(data, k).t \notin {"str", "datetime"}

StripOrNone(v) == IF v.t = "str" THEN StrV(Strip(v.s)) ELSE NoneV

SexOut(v) == IF v \in {StrV(<<"M">>), StrV(<<"F">>), StrV(<<"O">>), NoneV} THEN v ELSE NoneV

\* (data.get("parents") or {}).get(...) needs a dict
ParentsBad(data) == ~Falsy(Get(data, "parents")) /\ Get(data, "parents").t # "dict"

ParentsOut(v) == IF Falsy(v) THEN DictV("None", "None") ELSE DictV(v.father, v.mother)

NameOut(data) == StrV(Strip(Get(data, "name").s))

validate_birth(data, now) ==
    IF RegBad(data) THEN Raise("ValueError", "Invalid or missing registration_no")
    ELSE IF NameMissing(data) THEN Raise("ValueError", "Invalid or missing name")
    ELSE IF NameNotStr(data) THEN Raise("TypeError", "expected string or bytes-like object")
    ELSE IF NameBad(data) THEN Raise("ValueError", "Invalid or missing name")
    ELSE IF DateStrBad(data, "dob")
         THEN Raise("ValueError", "dob must be ISO date string or datetime")
    ELSE IF DateBad(data, "dob") THEN Raise("ValueError", "Invalid or missing dob")
    ELSE IF ParentsBad(data) THEN Raise("AttributeError", "object has no attribute 'get'")
    ELSE Ok([registration_no |-> StrV(Upper(Str(Get(data, "registration_no")))),
             name |-> NameOut(data),
             dob |-> Coerced(data, "dob"),
             place |-> StripOrNone(Get(data, "place")),
             sex |-> SexOut(Get(data, "sex")),
             parents |-> ParentsOut(Get(data, "parents")),
             created_at |-> now])

validate_death(data, now) ==
    IF RegBad(data) THEN Raise("ValueError", "Invalid or missing registration_no")
    ELSE IF NameMissing(data) THEN Raise("ValueError", "Invalid or missing name")
    ELSE IF NameNotStr(data) THEN Raise("TypeError", "expected string or bytes-like object")
    ELSE IF NameBad(data) THEN Raise("ValueError", "Invalid or missing name")
    ELSE IF DateStrBad(data, "dod")
         THEN Raise("ValueError", "dod must be ISO date string or datetime")
    ELSE IF DateBad(data, "dod") THEN Raise("ValueError", "Invalid or missing dod")
    ELSE Ok([registration_no |-> StrV(Upper(Str(Get(data, "registration_no")))),
             name |-> NameOut(data),
             dod |-> Coerced(data, "dod"),
             place |-> StripOrNone(Get(data, "place")),
             cause |-> StripOrNone(Get(data, "cause")),
             created_at |-> now])

validate(kind, data, now) ==
    IF kind = "birth" THEN validate_birth(data, now) ELSE validate_death(data, now)

(***************************************************************************)
(* The document store.  A collection is the sequence of its documents in   *)
(* insertion order; a document maps its keys to values.                    *)
(***************************************************************************)

\* BSON keeps a datetime as whole milliseconds: the microseconds are dropped
BsonValue(v) == IF v.t = "datetime" THEN [v EXCEPT !.us = 0] ELSE v

BsonDoc(d) == [k \in DOMAIN d |-> BsonValue(d[k])]

\* indexes of the documents whose registration_no is the string key
Matches(coll, key) == {i \in 1..Len(coll) : coll[i].registration_no = StrV(key)}

Min(S) == CHOOSE i \in S : \A j \in S : i <= j

\* no unique index
NoUniqueIndex(coll, d, skip) == FALSE

\* the unique index idx_birth_regno / idx_death_regno: d may not enter coll
\* beside another document (other than the one at position skip) with its key
UniqueViolation(coll, d, skip) ==
    \E i \in 1..Len(coll) : i # skip /\ coll[i].registration_no = d.registration_no

\* find_one({"registration_no": key}): the first match, as a sequence of 0 or 1
FindOne(coll, key) ==
    IF Matches(coll, key) = {} THEN <<>> ELSE <<coll[Min(Matches(coll, key))]>>

\* {"$set": upd} applied to a document
SetFields(d, upd) ==
    [k \in DOMAIN d \cup DOMAIN upd |-> IF k \in DOMAIN upd THEN BsonValue(upd[k]) ELSE d[k]]

\* update_one: the collection afterwards
UpdateOne(coll, key, upd) ==
    IF Matches(coll, key) = {} THEN coll
    ELSE [coll EXCEPT ![Min(Matches(coll, key))] = SetFields(@, upd)]

\* the first document deleted, whatever the filter
DeleteFirst(coll, key) == IF coll = <<>> THEN coll ELSE Tail(coll)

\* delete_one: the collection afterwards
DeleteOne(coll, key) ==
    IF Matches(coll, key) = {} THEN coll
    ELSE LET i == Min(Matches(coll, key))
         IN  SubSeq(coll, 1, i - 1) \o SubSeq(coll, i + 1, Len(coll))

\* the _id of the document update_one or delete_one acts on
MatchedId(coll, key) ==
    IF Matches(coll, key) = {} THEN {} ELSE {coll[Min(Matches(coll, key))]["_id"].n}

\* cursor.limit(n): 0 means no limit
Limit(s, n) == IF n = 0 \/ n >= Len(s) THEN s ELSE SubSeq(s, 1, n)

\* datetime order
Later(a, b) ==
    \/ a.day > b.day
    \/ a.day = b.day /\ a.ms > b.ms
    \/ a.day = b.day /\ a.ms = b.ms /\ a.us > b.us

\* find().sort([("created_at", -1)]): every order the sort may return
\* (documents with equal created_at come in any order)
SortedRecent(coll) ==
    LET n == Len(coll)
        perms == {f \in [1..n -> 1..n] : \A i, j \in 1..n : i # j => f[i] # f[j]}
    IN  {[i \in 1..n |-> coll[f[i]]] : f \in
            {g \in perms : \A i, j \in 1..n :
                i < j => ~Later(coll[g[j]].created_at, coll[g[i]].created_at)}}

\* find(query): the documents equal to query on each of its keys, in natural order
RECURSIVE Filter(_, _)
Filter(coll, query) ==
    IF coll = <<>> THEN <<>>
    ELSE (IF \A k \in DOMAIN query : Get(Head(coll), k) = query[k]
          THEN <<Head(coll)>> ELSE <<>>) \o Filter(Tail(coll), query)

(***************************************************************************)
(* RecordsManager                                                          *)
(***************************************************************************)
Kinds == {"birth", "death"}

\* registration_no let through
AllowedWithIdentity(kind) ==
    IF kind = "birth" THEN {"name", "place", "parents", "sex", "registration_no", "dob"}
    ELSE {"name", "place", "cause", "registration_no", "dod"}

\* the field whitelist of update_birth / update_death
Allowed(kind) ==
    IF kind = "birth" THEN {"name", "place", "parents", "sex"} ELSE {"name", "place", "cause"}

\* no filter
Unfiltered(kind, updates) == updates

\* upd = {k: v for k, v in updates.items() if k in allowed}
FilterUpdates(kind, updates) == [k \in DOMAIN updates \cap Allowed(kind) |-> updates[k]]

\* the number as given
LookupRaw(regno) == regno

\* the key every read, update and delete looks up: regno.upper()
LookupKey(regno) == Upper(regno)

DuplicateMsg(kind) ==
    IF kind = "birth" THEN "A birth record with this registration_no already exists"
    ELSE "A death record with this registration_no already exists"

Coll(kind) == IF kind = "birth" THEN births ELSE deaths

\* what a call returned or raised
\* what a call returned or raised: op/kind name the method, regno is its
\* registration-number argument (get, update, delete), status is "ok" or the
\* exception, id the returned identity, count the returned count, docs the
\* returned documents (find_one: none or one)
Result(op, kind, regno, status, msg, id, count, docs) ==
    [op |-> op, kind |-> kind, regno |-> regno, status |-> status, msg |-> msg, id |-> id,
     count |-> count, docs |-> docs]

NoResult == Result("none", "none", <<>>, "none", "", 0, 0, <<>>)

\* the storage error let through
LeakedStatus == "DuplicateKeyError"

\* except DuplicateKeyError: raise ValueError(...)
DuplicateStatus == "ValueError"

\* both handles bound to db.births
PutBirths(kind, new) == births' = new /\ deaths' = deaths

\* self.births = db.births, self.deaths = db.deaths: a write to the kind's
\* collection leaves the other collection alone
Put(kind, new) ==
    /\ births' = IF kind = "birth" THEN new ELSE births
    /\ deaths' = IF kind = "death" THEN new ELSE deaths

(***************************************************************************)
(* State.  births, deaths: the two collections.  nextId: the next          *)
(* ObjectId the driver generates.  pc[c]: "idle", or "insert" while c's    *)
(* create call has validated and not yet inserted.  doc[c]: the local doc  *)
(* of c's latest create call, kind[c] its record kind.  res[c]: what c's   *)
(* latest finished call returned or raised.  touched: the ids of the       *)
(* documents an update has matched or a delete has removed.                *)
(***************************************************************************)
\* at most MaxId documents are ever inserted
MaxId == 2

\* the state after construction, with the callers cs
InitWith(cs) ==
    /\ births = <<>>
    /\ deaths = <<>>
    /\ nextId = 1
    /\ pc = [c \in cs |-> "idle"]
    /\ doc = [c \in cs |-> NoDoc]
    /\ res = [c \in cs |-> NoResult]
    /\ touched = {}

\* create_birth / create_death up to the insert: validation
CreateCall(c, kind, data, now) ==
    /\ pc[c] = "idle"
    /\ nextId <= MaxId
    /\ LET v == validate(kind, data, now)
       IN  IF v.status = "ok"
           THEN /\ pc' = [pc EXCEPT ![c] = "insert"]
                /\ doc' = [doc EXCEPT ![c] = v.out]
                /\ res' = [res EXCEPT ![c] = Result("create", kind, <<>>, "pending", "", 0, 0, <<>>)]
           ELSE /\ res' = [res EXCEPT ![c] = Result("create", kind, <<>>, v.status, v.msg, 0, 0, <<>>)]
                /\ UNCHANGED <<pc, doc>>
    /\ UNCHANGED <<births, deaths, nextId, touched>>

\* insert_one (which adds the generated _id to doc) and the except clause
InsertStep(c) ==
    /\ pc[c] = "insert"
    /\ pc' = [pc EXCEPT ![c] = "idle"]
    /\ LET kind == res[c].kind
           d == doc[c] @@ ("_id" :> OidV(nextId))
       IN  IF UniqueViolation(Coll(kind), doc[c], 0)
           THEN /\ res' = [res EXCEPT ![c] =
                        Result("create", kind, <<>>, DuplicateStatus, DuplicateMsg(kind), 0, 0, <<>>)]
                /\ UNCHANGED <<births, deaths, nextId, doc>>
           ELSE /\ Put(kind, Append(Coll(kind), BsonDoc(d)))
                /\ nextId' = nextId + 1
                /\ doc' = [doc EXCEPT ![c] = d]
                /\ res' = [res EXCEPT ![c] = Result("create", kind, <<>>, "ok", "", nextId, 0, <<>>)]
    /\ UNCHANGED touched

\* get_birth_by_regno / get_death_by_regno
GetByRegno(c, kind, regno) ==
    /\ pc[c] = "idle"
    /\ res' = [res EXCEPT ![c] =
            Result("get", kind, regno, "ok", "", 0, 0, FindOne(Coll(kind), LookupKey(regno)))]
    /\ UNCHANGED <<births, deaths, nextId, pc, doc, touched>>

\* update_birth / update_death
Update(c, kind, regno, updates) ==
    /\ pc[c] = "idle"
    /\ LET upd == FilterUpdates(kind, updates)
           key == LookupKey(regno)
           old == Coll(kind)
           new == UpdateOne(old, key, upd)
           hit == Matches(old, key)
       IN  IF DOMAIN upd = {}
           THEN /\ res' = [res EXCEPT ![c] =
                        Result("update", kind, regno, "ValueError", "No updatable fields provided",
                               0, 0, <<>>)]
                /\ UNCHANGED <<births, deaths, touched>>
           ELSE IF hit # {} /\ UniqueViolation(old, new[Min(hit)], Min(hit))
           THEN /\ res' = [res EXCEPT ![c] =
                        Result("update", kind, regno, "DuplicateKeyError", "E11000", 0, 0, <<>>)]
                /\ UNCHANGED <<births, deaths, touched>>
           ELSE /\ Put(kind, new)
                /\ touched' = touched \cup MatchedId(old, key)
                /\ res' = [res EXCEPT ![c] =
                        Result("update", kind, regno, "ok", "", 0, IF new = old THEN 0 ELSE 1, <<>>)]
    /\ UNCHANGED <<nextId, pc, doc>>

\* delete_birth / delete_death
Delete(c, kind, regno) ==
    /\ pc[c] = "idle"
    /\ LET key == LookupKey(regno)
           old == Coll(kind)
           new == DeleteOne(old, key)
           hit == Matches(old, key)
       IN  /\ Put(kind, new)
           /\ touched' = touched \cup MatchedId(old, key)
           /\ res' = [res EXCEPT ![c] =
                   Result("delete", kind, regno, "ok", "", 0, Len(old) - Len(new), <<>>)]
    /\ UNCHANGED <<nextId, pc, doc>>

\* list_births / list_deaths
List(c, kind, limit) ==
    /\ pc[c] = "idle"
    /\ \E sorted \in SortedRecent(Coll(kind)) :
          res' = [res EXCEPT ![c] = Result("list", kind, <<>>, "ok", "", 0, 0, Limit(sorted, limit))]
    /\ UNCHANGED <<births, deaths, nextId, pc, doc, touched>>

\* search_births / search_deaths
Search(c, kind, query, limit) ==
    /\ pc[c] = "idle"
    /\ res' = [res EXCEPT ![c] =
            Result("search", kind, <<>>, "ok", "", 0, 0, Limit(Filter(Coll(kind), query), limit))]
    /\ UNCHANGED <<births, deaths, nextId, pc, doc, touched>>

(***************************************************************************)
(* Inputs                                                                  *)
(***************************************************************************)
S(t) == StrV(t)

D1990 == S(<<"1", "9", "9", "0", "-", "0", "5", "-", "0", "1">>)
D2000 == S(<<"2", "0", "0", "0", "-", "0", "2", "-", "2", "9">>)

\* utcnow() readings
Now1 == DateTimeV(20261101, 0, 500)
Now2 == DateTimeV(20261101, 1, 0)

BirthAl ==
    [registration_no |-> S(<<"b", "-", "1">>), name |-> S(<<" ", "A", "l", "LF">>),
     dob |-> D1990, place |-> S(<<" ", "x">>), sex |-> S(<<"M">>),
     parents |-> DictV("Ravi", "None")]

BirthBlank == [registration_no |-> IntV(123), name |-> S(<<" ", " ">>), dob |-> D2000]

BirthNoName == [registration_no |-> S(<<"B", "-", "1">>), dob |-> D1990]

DeathAl ==
    [registration_no |-> S(<<"B", "-", "1">>), name |-> S(<<"A", "l">>),
     dod |-> DateTimeV(20200131, 7, 250), cause |-> S(<<"x", " ">>)]

DeathBadDate == [registration_no |-> S(<<"B", "-", "1">>), name |-> S(<<"A", "l">>), dod |-> IntV(5)]

Payloads == [birth |-> {BirthAl, BirthBlank, BirthNoName}, death |-> {DeathAl, DeathBadDate}]

\* registration numbers given to get, update and delete
Regnos == {<<"b", "-", "1">>, <<"1", "2", "3">>, <<"x", "-", "9">>}

NoFields == [k \in {} |-> NoneV]

OnlyIdentity ==
    [registration_no |-> S(<<"X", "-", "9">>), created_at |-> DateTimeV(19990101, 0, 0)]

Mixed ==
    [name |-> S(<<"A">>), registration_no |-> S(<<"X", "-", "9">>),
     created_at |-> DateTimeV(19990101, 0, 0), dob |-> DateTimeV(19990101, 0, 0),
     dod |-> DateTimeV(19990101, 0, 0)]

Updates ==
    [birth |-> {NoFields, OnlyIdentity, Mixed, [sex |-> S(<<"Q">>)], [cause |-> S(<<"x">>)]},
     death |-> {NoFields, OnlyIdentity, Mixed, [sex |-> S(<<"M">>)]}]

Limits == {0, 1}

Queries == {NoFields, [name |-> S(<<"A", "l">>)]}

(***************************************************************************)
(* Specifications                                                          *)
(***************************************************************************)

Callers == DOMAIN pc

\* one caller, every operation
Init == InitWith({"c1"})

Next ==
    \/ \E c \in Callers, kind \in Kinds : \E data \in Payloads[kind] :
            CreateCall(c, kind, data, Now1)
    \/ \E c \in Callers : InsertStep(c)
    \/ \E c \in Callers, kind \in Kinds, regno \in Regnos : GetByRegno(c, kind, regno)
    \/ \E c \in Callers, kind \in Kinds, regno \in Regnos : \E updates \in Updates[kind] :
            Update(c, kind, regno, updates)
    \/ \E c \in Callers, kind \in Kinds, regno \in Regnos : Delete(c, kind, regno)
    \/ \E c \in Callers, kind \in Kinds, limit \in Limits : List(c, kind, limit)
    \/ \E c \in Callers, kind \in Kinds, query \in Queries, limit \in Limits :
            Search(c, kind, query, limit)

Spec == Init /\ [][Next]_vars

\* two callers whose calls on the births collection interleave
BirthBo ==
    [registration_no |-> S(<<"B", "-", "1">>), name |-> S(<<"B", "o">>),
     dob |-> DateTimeV(20000229, 5, 250), sex |-> S(<<"X">>)]

LowB1 == <<"b", "-", "1">>

InitConc == InitWith({"c1", "c2"})

NextConc ==
    \/ \E c \in Callers, data \in {BirthAl, BirthBo} : CreateCall(c, "birth", data, Now1)
    \/ \E c \in Callers : InsertStep(c)
    \/ \E c \in Callers : GetByRegno(c, "birth", LowB1)
    \/ \E c \in Callers : Update(c, "birth", LowB1, Mixed)
    \/ \E c \in Callers : Delete(c, "birth", LowB1)
    \/ \E c \in Callers : List(c, "birth", 1)
    \/ \E c \in Callers : Search(c, "birth", NoFields, 1)

SpecConc == InitConc /\ [][NextConc]_vars

\* two callers, one create call each, on payloads whose registration numbers
\* agree after uppercasing
DeathLow ==
    [registration_no |-> S(<<"b", "-", "1">>), name |-> S(<<"B", "o">>), dod |-> D2000]

RacePayloads == [birth |-> {BirthAl, BirthBo}, death |-> {DeathAl, DeathLow}]

NextRace ==
    \/ \E c \in Callers, kind \in Kinds, now \in {Now1, Now2} : \E data \in RacePayloads[kind] :
            res[c] = NoResult /\ CreateCall(c, kind, data, now)
    \/ \E c \in Callers : InsertStep(c)

SpecRace == InitConc /\ [][NextRace]_vars

\* one caller creating records from payloads that vary one field at a time
With(data, k, v) == [x \in DOMAIN data \cup {k} |-> IF x = k THEN v ELSE data[x]]

Without(data, k) == [x \in DOMAIN data \ {k} |-> data[x]]

RegnoInputs ==
    { NoneV, S(<<>>), S(<<"B", "1">>), S(<<"B", "_", "1">>), S(<<"B", "-", "1", "LF">>),
      S(Rep("7", RegnoMax)), S(Rep("7", RegnoMax + 1)), IntV(123), IntV(0) }

NameInputs ==
    { NoneV, S(<<>>), S(<<" ", " ">>), S(<<" ", "a">>), S(<<"A">>), S(<<"A", "!">>),
      S(<<"o", "'", "B", ".", "_", "-">>), IntV(5), S(Rep("x", NameMax)),
      S(Rep("x", NameMax + 1)), S(Rep("x", NameMax) \o <<"LF">>) }

DateInputs ==
    { NoneV, IntV(5), S(<<"b", "a", "d">>),
      S(<<"1", "9", "9", "0", "-", "1", "3", "-", "0", "1">>),
      S(<<"2", "0", "0", "1", "-", "0", "2", "-", "2", "9">>),
      D2000, DateTimeV(20000229, 5, 250) }

DateKey(kind) == IF kind = "birth" THEN "dob" ELSE "dod"

Base(kind) ==
    IF kind = "birth"
    THEN [registration_no |-> S(<<"b", "-", "1">>), name |-> S(<<" ", "A", "l", "LF">>),
          dob |-> D1990]
    ELSE [registration_no |-> S(<<"b", "-", "1">>), name |-> S(<<" ", "A", "l", "LF">>),
          dod |-> D1990]

ValidateInputs(kind) ==
    {Base(kind), Without(Base(kind), "registration_no"), Without(Base(kind), "name"),
     Without(Base(kind), DateKey(kind)),
     With(With(Base(kind), "registration_no", S(<<"B", "1">>)), "name", IntV(5)),
     With(With(Base(kind), "name", S(<<"A">>)), DateKey(kind), IntV(5)),
     With(Base(kind), "parents", S(<<"x">>))}
        \cup {With(Base(kind), "registration_no", v) : v \in RegnoInputs}
        \cup {With(Base(kind), "name", v) : v \in NameInputs}
        \cup {With(Base(kind), DateKey(kind), v) : v \in DateInputs}

NextValidate ==
    \/ \E c \in Callers, kind \in Kinds : \E data \in ValidateInputs(kind) :
            CreateCall(c, kind, data, Now1)
    \/ \E c \in Callers : InsertStep(c)

SpecValidate == Init /\ [][NextValidate]_vars

(***************************************************************************)
(* Properties                                                              *)
(***************************************************************************)
Finished(c) == pc[c] = "idle" /\ res[c].op = "create" /\ res[c].status # "pending"

CountOf(coll, regno) == Cardinality({i \in 1..Len(coll) : coll[i].registration_no = regno})

\* C1: in every reachable state, whatever calls have interleaved, each
\* collection holds at most one document per registration_no value.
C1_OneDocumentPerRegistrationNo ==
    \A kind \in Kinds : \A i, j \in 1..Len(Coll(kind)) :
        i # j => Coll(kind)[i].registration_no # Coll(kind)[j].registration_no

\* a create was refused as a duplicate while its twin is stored, after an update
C1_Witness ==
    /\ Len(births) = 1
    /\ touched # {}
    /\ res["c1"].op = "create" /\ res["c1"].msg = DuplicateMsg("birth")
    /\ res["c2"].op = "update" /\ res["c2"].count = 1

\* C2: of two create calls on one collection that validate and carry the same
\* registration_no after uppercasing, in any interleaving, exactly one returns
\* an identity and the other raises the ValueError for a duplicate, and the
\* collection then holds exactly one document with that registration_no.
C2_ExactlyOneCreateWins ==
    \A c, d \in DOMAIN pc :
        ( /\ c # d
          /\ Finished(c) /\ Finished(d)
          /\ res[c].kind = res[d].kind
          /\ doc[c].registration_no = doc[d].registration_no )
        => /\ \/ res[c].status = "ok" /\ res[c].id > 0
                 /\ res[d].status = "ValueError" /\ res[d].msg = DuplicateMsg(res[d].kind)
              \/ res[d].status = "ok" /\ res[d].id > 0
                 /\ res[c].status = "ValueError" /\ res[c].msg = DuplicateMsg(res[c].kind)
           /\ CountOf(Coll(res[c].kind), doc[c].registration_no) = 1

\* both calls have finished; the payloads differed in letter case
C2_Witness ==
    /\ Finished("c1") /\ Finished("c2")
    /\ res["c1"].kind = "death" /\ res["c2"].kind = "death"
    /\ doc["c1"].name # doc["c2"].name
    /\ res["c2"].status = "ok" /\ res["c1"].status = "ValueError"
    /\ Len(deaths) = 1

\* the collection of a kind after the step
CollNext(kind) == IF kind = "birth" THEN births' ELSE deaths'

\* the payload is one C3 names: registration_no or name missing or not matching
\* its pattern, the date field absent, no date-time, or a string that fails to parse
InvalidPayload(kind, data) ==
    LET reg == Get(data, "registration_no")
        name == Get(data, "name")
        date == Get(data, DateKey(kind))
    IN  \/ reg = NoneV
        \/ name = NoneV
        \/ ~REGNO_RE(Str(reg))
        \/ ~(name.t = "str" /\ NAME_RE(name.s))
        \/ date.t \notin {"str", "datetime"}
        \/ date.t = "str" /\ ~IsoOK(date.s)

\* C3: a create whose payload misses registration_no or name, has one that does
\* not match its pattern, or has a missing or malformed date, fails with the
\* validation error (ValueError) and leaves both collections as they were.
C3_InvalidCreateRaisesValueError ==
    [][\A c \in Callers, kind \in Kinds : \A data \in ValidateInputs(kind) :
            (CreateCall(c, kind, data, Now1) /\ InvalidPayload(kind, data))
                => /\ res'[c].status = "ValueError"
                   /\ pc'[c] = "idle"
                   /\ births' = births /\ deaths' = deaths]_vars

\* the step left c with the outcome of a call of method op on kind (every
\* action sets both, so this only tells the steps apart)
Returned(c, op, kind) == res'[c].op = op /\ res'[c].kind = kind

\* the names C4 and C5 give as updatable
Mutable(kind) ==
    IF kind = "birth" THEN {"name", "place", "parents", "sex"} ELSE {"name", "place", "cause"}

\* C4: an update whose map names no updatable field fails with the ValueError
\* "No updatable fields provided" and leaves every stored document unchanged.
C4_NoUpdatableFields ==
    [][\A c \in Callers, kind \in Kinds, regno \in Regnos : \A updates \in Updates[kind] :
         ( /\ DOMAIN updates \cap Mutable(kind) = {}
           /\ Returned(c, "update", kind)
           /\ Update(c, kind, regno, updates) )
            => /\ res'[c].status = "ValueError"
               /\ res'[c].msg = "No updatable fields provided"
               /\ births' = births /\ deaths' = deaths]_vars

\* an update naming only registration_no and created_at was refused for a stored record
C4_Witness ==
    /\ res["c1"].op = "update" /\ res["c1"].status = "ValueError"
    /\ res["c1"].kind = "birth"
    /\ Matches(births, Upper(res["c1"].regno)) # {}

\* C5: no step changes, in a document that stays stored, any field outside the
\* kind's updatable set: registration_no, created_at and dob / dod stay as created.
C5_OnlyMutableFieldsChange ==
    [][\A kind \in Kinds : \A i \in 1..Len(Coll(kind)), j \in 1..Len(CollNext(kind)) :
         Coll(kind)[i]["_id"] = CollNext(kind)[j]["_id"]
            => /\ DOMAIN CollNext(kind)[j] = DOMAIN Coll(kind)[i]
               /\ \A k \in DOMAIN Coll(kind)[i] \ Mutable(kind) :
                     CollNext(kind)[j][k] = Coll(kind)[i][k]]_vars

\* an update mixing name with registration_no, created_at and the dates was applied
C5_Witness ==
    /\ res["c1"].op = "update" /\ res["c1"].count = 1 /\ res["c1"].kind = "death"
    /\ \E i \in 1..Len(deaths) :
          /\ deaths[i].name = S(<<"A">>)
          /\ deaths[i].registration_no = S(<<"B", "-", "1">>)
          /\ deaths[i].dod = DateTimeV(20200131, 7, 0)

HasId(d) == "_id" \in DOMAIN d

KindOf(d) == IF "dob" \in DOMAIN d THEN "birth" ELSE "death"

\* c's latest call is a get of the record its latest create inserted, which no
\* update or delete has touched since
GotOwnRecord(c) ==
    /\ res[c].op = "get"
    /\ HasId(doc[c]) /\ doc[c]["_id"].n \notin touched
    /\ res[c].kind = KindOf(doc[c])
    /\ Upper(res[c].regno) = doc[c].registration_no.s

AllRegnosUpper ==
    \A kind \in Kinds : \A i \in 1..Len(Coll(kind)) :
        /\ Coll(kind)[i].registration_no.t = "str"
        /\ Upper(Coll(kind)[i].registration_no.s) = Coll(kind)[i].registration_no.s

\* C6 as stated: the get returns exactly the validator's output.
C6_GetReturnsValidatorOutput ==
    /\ \A c \in Callers : GotOwnRecord(c) => res[c].docs = <<doc[c]>>
    /\ AllRegnosUpper

\* C6: a get, in any letter case, of a record just created returns the
\* validator's output with its date-times cut to whole milliseconds, and every
\* stored registration_no is uppercase.
C6_GetReturnsStoredValidatorOutput ==
    /\ \A c \in Callers : GotOwnRecord(c) => res[c].docs = <<BsonDoc(doc[c])>>
    /\ AllRegnosUpper

\* a get in lowercase found the record created with microseconds in created_at
C6_Witness ==
    /\ GotOwnRecord("c1")
    /\ res["c1"].regno = <<"b", "-", "1">>
    /\ res["c1"].docs # <<>>
    /\ doc["c1"].created_at.us # 0

\* C7: every stored record has a name the validator accepts, and every stored
\* birth record has sex M, F, O or unset.
C7_StoredFieldsValid ==
    \A kind \in Kinds : \A i \in 1..Len(Coll(kind)) :
        /\ Coll(kind)[i].name.t = "str" /\ NAME_RE(Coll(kind)[i].name.s)
        /\ kind = "birth" =>
              Coll(kind)[i].sex \in {S(<<"M">>), S(<<"F">>), S(<<"O">>), NoneV}

\* C8: a delete of a registration number with no document returns 0, raises
\* nothing and changes no collection; a delete of one that is stored, in any
\* letter case, returns 1 and a get of it then finds nothing.
C8_Delete ==
    [][\A c \in Callers, kind \in Kinds, regno \in Regnos :
         (Returned(c, "delete", kind) /\ Delete(c, kind, regno))
            => IF CountOf(Coll(kind), S(Upper(regno))) = 0
               THEN /\ res'[c].status = "ok" /\ res'[c].count = 0
                    /\ births' = births /\ deaths' = deaths
               ELSE /\ res'[c].status = "ok" /\ res'[c].count = 1
                    /\ \A r \in Regnos :
                          Upper(r) = Upper(regno) => FindOne(CollNext(kind), LookupKey(r)) = <<>>]_vars

\* a delete given the number in lowercase removed the stored record
C8_Witness ==
    /\ res["c1"].op = "delete" /\ res["c1"].count = 1
    /\ res["c1"].regno = <<"b", "-", "1">>
    /\ touched # {}

\* c takes a step of a create, update or delete call on kind
WriteStep(c, kind) ==
    \/ /\ Returned(c, "create", kind)
       /\ \/ \E data \in Payloads[kind] : CreateCall(c, kind, data, Now1)
          \/ InsertStep(c) /\ res[c].kind = kind
    \/ /\ Returned(c, "update", kind)
       /\ \E regno \in Regnos, updates \in Updates[kind] : Update(c, kind, regno, updates)
    \/ /\ Returned(c, "delete", kind)
       /\ \E regno \in Regnos : Delete(c, kind, regno)

Other(kind) == IF kind = "birth" THEN "death" ELSE "birth"

\* C9: a create whose registration_no is stored only in the other collection
\* succeeds; a birth operation leaves deaths unchanged and a death operation
\* leaves births unchanged.
C9_SeparateNamespaces ==
    [][\A c \in Callers :
         /\ WriteStep(c, "birth") => deaths' = deaths
         /\ WriteStep(c, "death") => births' = births
         /\ \A kind \in Kinds :
               ( /\ pc[c] = "insert" /\ res[c].kind = kind
                 /\ CountOf(Coll(kind), doc[c].registration_no) = 0
                 /\ CountOf(Coll(Other(kind)), doc[c].registration_no) > 0
                 /\ InsertStep(c) )
               => res'[c].status = "ok" /\ Len(CollNext(kind)) = Len(Coll(kind)) + 1]_vars

\* the same registration number is stored in both collections
C9_Witness ==
    /\ CountOf(births, S(<<"B", "-", "1">>)) = 1
    /\ CountOf(deaths, S(<<"B", "-", "1">>)) = 1
    /\ res["c1"].op = "create" /\ res["c1"].status = "ok"

\* C10: the name a validator outputs for a payload it accepts is the input name
\* stripped, and still matches the name pattern (2 to 150 allowed characters).
C10_CanonicalNameValid ==
    [][\A c \in Callers, kind \in Kinds : \A data \in ValidateInputs(kind) :
            (CreateCall(c, kind, data, Now1) /\ pc'[c] = "insert")
                => /\ doc'[c].name = S(Strip(Get(data, "name").s))
                   /\ NAME_RE(doc'[c].name.s)]_vars

====
